---------------------------- MODULE Spec2Model ----------------------------
(***************************************************************************)
(* A model of the PyPIM client core: the Definition, Instance and Service  *)
(* value objects, their translation from the PIM API v1 protobuf messages, *)
(* the two outbound RPCs (CreateInstance, DeleteInstance) and the          *)
(* construction of a gRPC channel from a Service.                          *)
(*                                                                         *)
(* Python strings that the code inspects (names, URIs) are sequences of    *)
(* one-character strings; strings the code only tests for emptiness or     *)
(* copies are TLA+ strings.  None is the string "None".                    *)
(***************************************************************************)
EXTENDS Integers, Sequences, FiniteSets, TLC

VARIABLES
    outcome,     \* the last completed operation: its inputs and its result
    definition,  \* the Definition object the caller holds
    instance,    \* the Instance object the caller holds
    pc,          \* where the caller's thread is: idle, or blocked in an RPC
    pending,     \* the RPC in flight, with the arguments of the blocked call
    calls,       \* every RPC issued on a stub, in order
    remote,      \* the instances the remote service holds, as <<stub, name>>
    service,     \* the Service object the caller holds
    channel,     \* the channel the last _build_grpc_channel returned
    received     \* the metadata of every call that reached the transport

vars == <<outcome, definition, instance, pc, pending, calls, remote,
          service, channel, received>>

---------------------------------------------------------------------------
(* Bounds of the model.                                                    *)

\* Longest tail appended to a name head to make a candidate name.
MaxTail == 1
\* Longest available_service_names sequence of a Definition message.
MaxServiceNames == 2
\* Longest run of characters after the host part of a candidate URI.
MaxPortLen == 4
\* Most RPCs the caller issues in one behaviour.
MaxCalls == 2

---------------------------------------------------------------------------
(* Strings.                                                                *)

None == "None"

RECURSIVE SeqsUpTo(_, _)
SeqsUpTo(S, n) ==
    IF n = 0 THEN {<<>>}
    ELSE LET shorter == SeqsUpTo(S, n - 1)
         IN  shorter \cup {Append(s, c) : s \in shorter, c \in S}

DefinitionsPrefix == <<"d","e","f","i","n","i","t","i","o","n","s","/">>
InstancesPrefix   == <<"i","n","s","t","a","n","c","e","s","/">>

\* str.startswith(prefix)
StartsWith(s, prefix) ==
    /\ Len(s) >= Len(prefix)
    /\ SubSeq(s, 1, Len(prefix)) = prefix

\* Truthiness of a Python str (and of any sized container): non-empty.
Truthy(s) == Len(s) > 0


---------------------------------------------------------------------------
(* Values shared by the objects.                                           *)

\* A function's result: a returned value, or an exception raised.
Return(v) == [ok |-> TRUE, value |-> v]
Raise(type, message) == [ok |-> FALSE, error |-> [type |-> type, message |-> message]]

\* ProductInstanceManagerStub objects; a handle may also carry no stub (None).
Stubs == {"stub1", "stub2"}
StubRefs == Stubs \cup {None}

\* Candidate names: a head (a prefix, a damaged prefix, or nothing) and a tail.
NameHeads ==
    { <<>>,
      DefinitionsPrefix,
      InstancesPrefix,
      SubSeq(DefinitionsPrefix, 1, Len(DefinitionsPrefix) - 1),
      <<"x">> \o InstancesPrefix }
NameTails == SeqsUpTo({"a", "/"}, MaxTail)
Names == {h \o t : h \in NameHeads, t \in NameTails}

\* Mappings from header name to header value.
HeaderNames == {"authorization", "x-id"}
HeaderMaps == UNION {[D -> {"v"}] : D \in SUBSET HeaderNames}

---------------------------------------------------------------------------
(* service.py: the Service object and its translation.                     *)

\* Service.__init__
Service(uri, headers) == [_uri |-> uri, _headers |-> headers]

\* Service._from_pim_v1
Service_from_pim_v1(svc) == Service(svc.uri, svc.headers)

\* Service.__eq__, for two Service objects
Service_eq(a, b) == b._headers = a._headers /\ b._uri = a._uri

---------------------------------------------------------------------------
(* definition.py: the Definition object and its translation.               *)

\* The dataclass constructor of Definition.
Definition(name, product_name, product_version, available_service_names, stub) ==
    [ name |-> name,
      product_name |-> product_name,
      product_version |-> product_version,
      available_service_names |-> available_service_names,
      _stub |-> stub ]

\* Definition._from_pim_v1 without its check of available_service_names.
Definition_from_pim_v1_NoServiceNamesCheck(d, stub) ==
    IF ~Truthy(d.name) \/ ~StartsWith(d.name, DefinitionsPrefix)
    THEN Raise("ValueError", "A definition name must have a name that starts with definitions/.")
    ELSE IF d.product_name = ""
    THEN Raise("ValueError", "A definition must have a product name.")
    ELSE IF d.product_version = ""
    THEN Raise("ValueError", "A definition must have a product version.")
    ELSE Return(Definition(d.name, d.product_name, d.product_version,
                           d.available_service_names, stub))

\* Definition._from_pim_v1 building the Definition with the version in the
\* place of the product name.
Definition_from_pim_v1_SwappedFields(d, stub) ==
    IF ~Truthy(d.name) \/ ~StartsWith(d.name, DefinitionsPrefix)
    THEN Raise("ValueError", "A definition name must have a name that starts with definitions/.")
    ELSE IF d.product_name = ""
    THEN Raise("ValueError", "A definition must have a product name.")
    ELSE IF d.product_version = ""
    THEN Raise("ValueError", "A definition must have a product version.")
    ELSE IF ~Truthy(d.available_service_names) \/ Len(d.available_service_names) = 0
    THEN Raise("ValueError", "A definition must have at least one service name.")
    ELSE Return(Definition(d.name, d.product_version, d.product_name,
                           d.available_service_names, stub))

\* Definition._from_pim_v1
Definition_from_pim_v1(d, stub) ==
    IF ~Truthy(d.name) \/ ~StartsWith(d.name, DefinitionsPrefix)
    THEN Raise("ValueError", "A definition name must have a name that starts with definitions/.")
    ELSE IF d.product_name = ""
    THEN Raise("ValueError", "A definition must have a product name.")
    ELSE IF d.product_version = ""
    THEN Raise("ValueError", "A definition must have a product version.")
    ELSE IF ~Truthy(d.available_service_names) \/ Len(d.available_service_names) = 0
    THEN Raise("ValueError", "A definition must have at least one service name.")
    ELSE Return(Definition(d.name, d.product_name, d.product_version,
                           d.available_service_names, stub))

---------------------------------------------------------------------------
(* instance.py: the Instance object and its translation.                   *)

\* The dataclass constructor of Instance.
Instance(definition_name, name, ready, status_message, services, stub) ==
    [ definition_name |-> definition_name,
      name |-> name,
      ready |-> ready,
      status_message |-> status_message,
      services |-> services,
      _stub |-> stub ]

\* Instance._from_pim_v1 requiring a name, as Definition._from_pim_v1 does.
Instance_from_pim_v1_NameRequired(i, stub) ==
    IF ~Truthy(i.name) \/ ~StartsWith(i.name, InstancesPrefix)
    THEN Raise("ValueError", "An instance name must start with instances/")
    ELSE IF ~Truthy(i.definition_name) \/ ~StartsWith(i.definition_name, DefinitionsPrefix)
    THEN Raise("ValueError", "An instance must have a definition name that starts with definitions/")
    ELSE Return(Instance(i.definition_name, i.name, i.ready, i.status_message,
                         [n \in DOMAIN i.services |-> Service_from_pim_v1(i.services[n])],
                         stub))

\* Instance._from_pim_v1 keeping the services of a ready instance only.
Instance_from_pim_v1_ReadyGate(i, stub) ==
    IF Truthy(i.name) /\ ~StartsWith(i.name, InstancesPrefix)
    THEN Raise("ValueError", "An instance name must start with instances/")
    ELSE IF ~Truthy(i.definition_name) \/ ~StartsWith(i.definition_name, DefinitionsPrefix)
    THEN Raise("ValueError", "An instance must have a definition name that starts with definitions/")
    ELSE Return(Instance(i.definition_name, i.name, i.ready, i.status_message,
                         IF i.ready
                         THEN [n \in DOMAIN i.services |-> Service_from_pim_v1(i.services[n])]
                         ELSE <<>>,
                         stub))

\* Instance._from_pim_v1
Instance_from_pim_v1(i, stub) ==
    IF Truthy(i.name) /\ ~StartsWith(i.name, InstancesPrefix)
    THEN Raise("ValueError", "An instance name must start with instances/")
    ELSE IF ~Truthy(i.definition_name) \/ ~StartsWith(i.definition_name, DefinitionsPrefix)
    THEN Raise("ValueError", "An instance must have a definition name that starts with definitions/")
    ELSE Return(Instance(i.definition_name, i.name, i.ready, i.status_message,
                         [n \in DOMAIN i.services |-> Service_from_pim_v1(i.services[n])],
                         stub))

---------------------------------------------------------------------------
(* The PIM API v1 messages the translations are applied to.                *)

DefinitionMessages ==
    [ name : Names,
      product_name : {"", "mapdl"},
      product_version : {"", "221"},
      available_service_names : SeqsUpTo({"grpc", "http"}, MaxServiceNames) ]

ServiceMessages ==
    [ uri : {<<"h", ":", "4", "4", "3">>, <<"d", "n", "s", ":", "h">>},
      headers : {[n \in {"authorization"} |-> "v"]} ]

ServiceMaps == UNION {[D -> ServiceMessages] : D \in SUBSET {"grpc", "http"}}

InstanceMessages ==
    [ name : Names,
      definition_name : Names,
      ready : BOOLEAN,
      status_message : {"", "loading..."},
      services : ServiceMaps ]

---------------------------------------------------------------------------
(* The translations, each applied once to a message of the bounded sets:   *)
(* they are pure functions, so one application per behaviour covers them.  *)

NoOutcome == [op |-> "none"]

Init ==
    /\ outcome = NoOutcome
    /\ definition = [kind |-> None]
    /\ instance = [kind |-> None]
    /\ pc = "idle"
    /\ pending = [rpc |-> None]
    /\ calls = <<>>
    /\ remote = {}
    /\ service = [kind |-> None]
    /\ channel = [kind |-> None]
    /\ received = <<>>

DefinitionFromPimV1 ==
    /\ outcome = NoOutcome
    /\ \E m \in DefinitionMessages, s \in StubRefs :
        /\ outcome' = [ op |-> "Definition._from_pim_v1", message |-> m, stub |-> s,
                        result |-> Definition_from_pim_v1(m, s) ]
        /\ UNCHANGED <<definition, instance, pc, pending, calls, remote,
                       service, channel, received>>

InstanceFromPimV1 ==
    /\ outcome = NoOutcome
    /\ \E m \in InstanceMessages, s \in StubRefs :
        /\ outcome' = [ op |-> "Instance._from_pim_v1", message |-> m, stub |-> s,
                        result |-> Instance_from_pim_v1(m, s) ]
        /\ UNCHANGED <<definition, instance, pc, pending, calls, remote,
                       service, channel, received>>

NextFromWire == DefinitionFromPimV1 \/ InstanceFromPimV1

SpecFromWire == Init /\ [][NextFromWire]_vars


---------------------------------------------------------------------------
(* The two RPCs: Definition.create_instance (Instance._create) and         *)
(* Instance.delete.  Each blocks the caller in one call on the stub; what  *)
(* the stub answers is the remote service's choice.                        *)

\* InstanceV1(definition_name=...): every other field at its protobuf default.
InstanceV1(definition_name) ==
    [ name |-> <<>>,
      definition_name |-> definition_name,
      ready |-> FALSE,
      status_message |-> "",
      services |-> <<>> ]

\* CreateInstanceRequest(instance=InstanceV1(definition_name=definition_name))
CreateInstanceRequest(definition_name) == [instance |-> InstanceV1(definition_name)]

\* A DeleteInstanceRequest keyed by the definition's name.
DeleteInstanceRequest_ByDefinitionName(self) == [name |-> self.definition_name]

\* DeleteInstanceRequest(name=self.name)
DeleteInstanceRequest(self) == [name |-> self.name]

\* Definition.create_instance not forwarding its timeout.
Definition_create_instance_NoTimeout(self, timeout) ==
    [definition_name |-> self.name, stub |-> self._stub, timeout |-> None]

\* The arguments Definition.create_instance hands to Instance._create.
Definition_create_instance(self, timeout) ==
    [definition_name |-> self.name, stub |-> self._stub, timeout |-> timeout]

\* A call of a method of a stub, as the log of RPCs records it.
StubCall(stub, method, request, timeout) ==
    [stub |-> stub, method |-> method, request |-> request, timeout |-> timeout]

\* Instance._create building the Instance from the response unvalidated.
Instance_create_result_Unvalidated(rpc, stub) ==
    IF rpc.ok
    THEN Return(Instance(rpc.value.definition_name, rpc.value.name, rpc.value.ready,
                         rpc.value.status_message,
                         [n \in DOMAIN rpc.value.services |->
                              Service_from_pim_v1(rpc.value.services[n])],
                         stub))
    ELSE rpc

\* What Instance._create does with the outcome of stub.CreateInstance: an
\* exception propagates, a response is translated with the same stub.
Instance_create_result(rpc, stub) ==
    IF rpc.ok THEN Instance_from_pim_v1(rpc.value, stub) ELSE rpc

\* Instance.delete swallowing the exception of stub.DeleteInstance.
Instance_delete_result_Suppressed(rpc) == Return(None)

\* What Instance.delete does with the outcome of stub.DeleteInstance: an
\* exception propagates, otherwise the method returns nothing.
Instance_delete_result(rpc) ==
    IF rpc.ok THEN Return(None) ELSE rpc

\* Calling a method of a stub that is None.
NoneHasNoAttribute(method) ==
    Raise("AttributeError", <<"'NoneType' object has no attribute", method>>)

Timeouts == {None, "0.1"}
RpcErrors == {"UNAVAILABLE", "DEADLINE_EXCEEDED"}

\* The Definition objects of the callers: built by Definition._from_pim_v1
\* or, as in the tests, by the constructor, which takes any name.
CallerDefinitionNames ==
    { DefinitionsPrefix \o <<"a">>, DefinitionsPrefix \o <<"b">>, <<"x">> }
CallerDefinitions ==
    { Definition(n, "mapdl", "221", <<"grpc", "http">>, s) :
          n \in CallerDefinitionNames, s \in StubRefs }

\* What the remote service may answer to CreateInstance for definition dn.
CreateResponses(dn) ==
    { [ name |-> n, definition_name |-> d, ready |-> st.ready,
        status_message |-> st.status_message, services |-> st.services ] :
          n \in { <<>>, InstancesPrefix \o <<"a">>, <<"a">> },
          d \in { dn, <<>> },
          st \in { [ ready |-> TRUE, status_message |-> "",
                     services |-> [k \in {"grpc"} |->
                                      [uri |-> <<"h", ":", "4", "4", "3">>,
                                       headers |-> [h \in {"authorization"} |-> "v"]]] ],
                   [ ready |-> FALSE, status_message |-> "loading...",
                     services |-> <<>> ] } }

\* Instance messages of instances created earlier, which a caller adopts.
AdoptedMessages ==
    { [ name |-> n, definition_name |-> DefinitionsPrefix \o <<"a">>, ready |-> FALSE,
        status_message |-> "loading...", services |-> <<>> ] :
          n \in { <<>>, InstancesPrefix \o <<"a">>, InstancesPrefix \o <<"b">> } }

\* The caller obtains a Definition.
NewDefinition ==
    /\ pc = "idle"
    /\ definition = [kind |-> None]
    /\ \E d \in CallerDefinitions : definition' = d
    /\ UNCHANGED <<outcome, instance, pc, pending, calls, remote, service, channel, received>>

\* The caller obtains the Instance of an instance created earlier.
AdoptInstance ==
    /\ pc = "idle"
    /\ instance = [kind |-> None]
    /\ definition = [kind |-> None]
    /\ \E m \in AdoptedMessages, s \in StubRefs :
           /\ Instance_from_pim_v1(m, s).ok
           /\ instance' = Instance_from_pim_v1(m, s).value
           /\ remote' = IF s = None THEN remote ELSE remote \cup {<<s, m.name>>}
    /\ UNCHANGED <<outcome, definition, pc, pending, calls, service, channel, received>>

\* Definition.create_instance up to the call of stub.CreateInstance.
CreateInstanceCall ==
    /\ pc = "idle"
    /\ definition # [kind |-> None]
    /\ Len(calls) < MaxCalls
    /\ \E timeout \in Timeouts :
         LET args == Definition_create_instance(definition, timeout)
             request == CreateInstanceRequest(args.definition_name)
             frame == [ op |-> "Definition.create_instance", self |-> definition,
                        timeout |-> timeout, before |-> Len(calls) ]
         IN  IF args.stub = None
             THEN /\ outcome' = frame @@ [ rpc |-> [ok |-> FALSE, error |-> None],
                                           result |-> NoneHasNoAttribute("CreateInstance") ]
                  /\ UNCHANGED <<pc, pending, calls>>
             ELSE /\ calls' = Append(calls, StubCall(args.stub, "CreateInstance",
                                                     request, args.timeout))
                  /\ pc' = "CreateInstance"
                  /\ pending' = frame @@ [stub |-> args.stub,
                                          definition_name |-> args.definition_name]
                  /\ UNCHANGED outcome
    /\ UNCHANGED <<definition, instance, remote, service, channel, received>>

\* stub.CreateInstance returns a response: the remote service has created
\* the instance; Instance._create translates the response and returns.
CreateInstanceReturn ==
    /\ pc = "CreateInstance"
    /\ \E response \in CreateResponses(pending.definition_name) :
         LET rpc == Return(response)
             result == Instance_create_result(rpc, pending.stub)
         IN  /\ remote' = remote \cup {<<pending.stub, response.name>>}
             /\ outcome' = [ op |-> pending.op, self |-> pending.self,
                             timeout |-> pending.timeout, before |-> pending.before,
                             rpc |-> rpc, result |-> result ]
             /\ instance' = IF result.ok THEN result.value ELSE instance
    /\ pc' = "idle"
    /\ pending' = [rpc |-> None]
    /\ UNCHANGED <<definition, calls, service, channel, received>>

\* stub.CreateInstance raises: Instance._create lets the exception through.
CreateInstanceFail ==
    /\ pc = "CreateInstance"
    /\ \E e \in RpcErrors :
         LET rpc == Raise("RpcError", e)
             result == Instance_create_result(rpc, pending.stub)
         IN  /\ outcome' = [ op |-> pending.op, self |-> pending.self,
                             timeout |-> pending.timeout, before |-> pending.before,
                             rpc |-> rpc, result |-> result ]
             /\ instance' = IF result.ok THEN result.value ELSE instance
    /\ pc' = "idle"
    /\ pending' = [rpc |-> None]
    /\ UNCHANGED <<definition, calls, remote, service, channel, received>>

\* Instance.delete up to the call of stub.DeleteInstance.
DeleteCall ==
    /\ pc = "idle"
    /\ instance # [kind |-> None]
    /\ Len(calls) < MaxCalls
    /\ \E timeout \in Timeouts :
         LET request == DeleteInstanceRequest(instance)
             frame == [ op |-> "Instance.delete", self |-> instance,
                        timeout |-> timeout, before |-> Len(calls) ]
         IN  IF instance._stub = None
             THEN /\ outcome' = frame @@ [ rpc |-> [ok |-> FALSE, error |-> None],
                                           result |-> NoneHasNoAttribute("DeleteInstance") ]
                  /\ UNCHANGED <<pc, pending, calls>>
             ELSE /\ calls' = Append(calls, StubCall(instance._stub, "DeleteInstance",
                                                     request, timeout))
                  /\ pc' = "DeleteInstance"
                  /\ pending' = frame @@ [stub |-> instance._stub, request |-> request]
                  /\ UNCHANGED outcome
    /\ UNCHANGED <<definition, instance, remote, service, channel, received>>

\* stub.DeleteInstance returns: the remote service held the instance and has
\* deleted it; Instance.delete returns.
DeleteReturn ==
    /\ pc = "DeleteInstance"
    /\ <<pending.stub, pending.request.name>> \in remote
    /\ remote' = remote \ {<<pending.stub, pending.request.name>>}
    /\ outcome' = [ op |-> pending.op, self |-> pending.self,
                    timeout |-> pending.timeout, before |-> pending.before,
                    rpc |-> Return(<<>>), result |-> Instance_delete_result(Return(<<>>)) ]
    /\ pc' = "idle"
    /\ pending' = [rpc |-> None]
    /\ UNCHANGED <<definition, instance, calls, service, channel, received>>

\* stub.DeleteInstance raises (NOT_FOUND when the remote service does not
\* hold the instance): Instance.delete lets the exception through.
DeleteFail ==
    /\ pc = "DeleteInstance"
    /\ \E e \in RpcErrors \cup
               ( IF <<pending.stub, pending.request.name>> \in remote
                 THEN {} ELSE {"NOT_FOUND"} ) :
           outcome' = [ op |-> pending.op, self |-> pending.self,
                        timeout |-> pending.timeout, before |-> pending.before,
                        rpc |-> Raise("RpcError", e),
                        result |-> Instance_delete_result(Raise("RpcError", e)) ]
    /\ pc' = "idle"
    /\ pending' = [rpc |-> None]
    /\ UNCHANGED <<definition, instance, calls, remote, service, channel, received>>

Next ==
    \/ NewDefinition
    \/ AdoptInstance
    \/ CreateInstanceCall
    \/ CreateInstanceReturn
    \/ CreateInstanceFail
    \/ DeleteCall
    \/ DeleteReturn
    \/ DeleteFail

Spec == Init /\ [][Next]_vars

---------------------------------------------------------------------------
(* service.py: Service._build_grpc_channel, and calls made through the     *)
(* channel it returns.                                                     *)

\* The characters str.isdecimal accepts, with the digit int() reads in each.
DecimalChars == {"0", "1", "2", "3", "4", "5", "6", "7", "8", "9"}
DigitOf(c) ==
    CASE c = "0" -> 0 [] c = "1" -> 1 [] c = "2" -> 2 [] c = "3" -> 3 [] c = "4" -> 4
      [] c = "5" -> 5 [] c = "6" -> 6 [] c = "7" -> 7 [] c = "8" -> 8 [] c = "9" -> 9

\* uri.split(":")[-1]: what follows the last ":", or all of uri without one.
RECURSIVE LastSegment(_)
LastSegment(uri) ==
    IF uri = <<>> THEN <<>>
    ELSE IF uri[Len(uri)] = ":" THEN <<>>
    ELSE Append(LastSegment(SubSeq(uri, 1, Len(uri) - 1)), uri[Len(uri)])

\* str.isdecimal(): at least one character, all of them decimal.
IsDecimal(s) == Len(s) > 0 /\ \A k \in 1..Len(s) : s[k] \in DecimalChars

\* int(s) for a decimal s (Python's int has no width).
RECURSIVE IntOf(_)
IntOf(s) ==
    IF s = <<>> THEN 0
    ELSE 10 * IntOf(SubSeq(s, 1, Len(s) - 1)) + DigitOf(s[Len(s)])

SecurePort == 443

\* is_secure_port taking every decimal port from 443 up as secure.
IsSecurePort_AtLeast(uri) ==
    LET potential_port_number == LastSegment(uri)
    IN  IsDecimal(potential_port_number) /\ IntOf(potential_port_number) >= 443

\* is_secure_port of Service._build_grpc_channel
IsSecurePort(uri) ==
    LET potential_port_number == LastSegment(uri)
    IN  IsDecimal(potential_port_number) /\ IntOf(potential_port_number) = SecurePort

\* dict.items(): the (name, value) pairs of a mapping.
Items(headers) == {<<n, headers[n]>> : n \in DOMAIN headers}

\* header_adder_interceptor(headers): an interceptor that adds the pairs to
\* the metadata of every call.
HeaderAdderInterceptor(headers) == [kind |-> "header_adder", headers |-> headers]

\* What default_configuration() yields: the configuration, or an error when
\* the process has none.
DefaultConfiguration(configured) ==
    IF configured
    THEN Return([access_token |-> "token"])
    ELSE Raise("ConfigurationError", "no configuration")

\* grpc.composite_channel_credentials(grpc.ssl_channel_credentials(),
\*                                    grpc.access_token_call_credentials(token))
CompositeChannelCredentials(access_token) ==
    [channel |-> "ssl", call |-> [access_token |-> access_token]]

\* grpc.secure_channel, grpc.insecure_channel, grpc.intercept_channel
SecureChannel(target, credentials, kwargs) ==
    [kind |-> "secure", target |-> target, credentials |-> credentials, kwargs |-> kwargs]
InsecureChannel(target, kwargs) ==
    [kind |-> "insecure", target |-> target, kwargs |-> kwargs]
InterceptChannel(ch, interceptor) ==
    [kind |-> "intercepted", channel |-> ch, interceptor |-> interceptor]

\* Service._build_grpc_channel returning the secure channel as built.
Service_build_grpc_channel_BareSecure(self, kwargs, configured) ==
    LET headers == Items(self._headers)
        interceptor == HeaderAdderInterceptor(headers)
        is_secure_port == IsSecurePort(self._uri)
        configuration == DefaultConfiguration(configured)
    IN  IF is_secure_port
        THEN IF ~configuration.ok
             THEN configuration
             ELSE Return(SecureChannel(self._uri,
                                       CompositeChannelCredentials(configuration.value.access_token),
                                       kwargs))
        ELSE Return(InterceptChannel(InsecureChannel(self._uri, kwargs), interceptor))

\* Service._build_grpc_channel
Service_build_grpc_channel(self, kwargs, configured) ==
    LET headers == Items(self._headers)
        interceptor == HeaderAdderInterceptor(headers)
        is_secure_port == IsSecurePort(self._uri)
        configuration == DefaultConfiguration(configured)
    IN  IF is_secure_port
        THEN IF ~configuration.ok
             THEN configuration
             ELSE Return(InterceptChannel(
                      SecureChannel(self._uri,
                                    CompositeChannelCredentials(configuration.value.access_token),
                                    kwargs),
                      interceptor))
        ELSE Return(InterceptChannel(InsecureChannel(self._uri, kwargs), interceptor))

\* A call made through channel ch with the caller's metadata: what reaches
\* the transport.  An intercepted channel hands the call to its interceptor,
\* which adds its headers and continues on the channel below.
RECURSIVE Invoke(_, _, _)
Invoke(ch, call_type, metadata) ==
    IF ch.kind = "intercepted"
    THEN Invoke(ch.channel, call_type, metadata \cup ch.interceptor.headers)
    ELSE [ target |-> ch.target, secure |-> ch.kind = "secure",
           call_type |-> call_type, metadata |-> metadata ]

\* Most calls made through a channel in one behaviour.
MaxSent == 1

UriHosts == {<<>>, <<"h">>}
UriChars == {":", "4", "3", "0", "a"}
Uris == {h \o t : h \in UriHosts, t \in SeqsUpTo(UriChars, MaxPortLen)}
KwargSets == {[options |-> "keepalive"]}
CallTypes == {"unary_unary", "stream_stream"}
CallerMetadata == {{<<"x-caller", "1">>}}

\* Service.__init__: the caller obtains a Service.
NewService ==
    /\ service = [kind |-> None]
    /\ \E uri \in Uris, headers \in HeaderMaps : service' = Service(uri, headers)
    /\ UNCHANGED <<outcome, definition, instance, pc, pending, calls, remote,
                   channel, received>>

\* The caller builds a channel from its Service.
BuildGrpcChannel ==
    /\ service # [kind |-> None]
    /\ channel = [kind |-> None]
    /\ outcome = NoOutcome
    /\ \E kwargs \in KwargSets, configured \in BOOLEAN :
         LET result == Service_build_grpc_channel(service, kwargs, configured)
         IN  /\ outcome' = [ op |-> "Service._build_grpc_channel", self |-> service,
                             kwargs |-> kwargs, configured |-> configured,
                             result |-> result ]
             /\ channel' = IF result.ok THEN result.value ELSE channel
    /\ UNCHANGED <<definition, instance, pc, pending, calls, remote, service, received>>

\* The caller makes a call through the channel.
ChannelCall ==
    /\ channel # [kind |-> None]
    /\ Len(received) < MaxSent
    /\ \E call_type \in CallTypes, metadata \in CallerMetadata :
           received' = Append(received, Invoke(channel, call_type, metadata))
    /\ UNCHANGED <<outcome, definition, instance, pc, pending, calls, remote,
                   service, channel>>

NextChannel == NewService \/ BuildGrpcChannel \/ ChannelCall

SpecChannel == Init /\ [][NextChannel]_vars

---------------------------------------------------------------------------
(* Properties of the translations.                                         *)

\* The number of places of sequence q that hold x.
Count(q, x) == Cardinality({k \in 1..Len(q) : q[k] = x})

\* Two sequences with the same contents, in any order.
SameContents(a, b) ==
    /\ Len(a) = Len(b)
    /\ \A k \in 1..Len(a) : Count(a, a[k]) = Count(b, a[k])

\* Sequence s begins with the characters of p.
BeginsWith(s, p) == Len(s) >= Len(p) /\ \A k \in 1..Len(p) : s[k] = p[k]

\* The four faults of a Definition message.
DefinitionFault(m) ==
    \/ ~BeginsWith(m.name, DefinitionsPrefix)
    \/ m.product_name = ""
    \/ m.product_version = ""
    \/ m.available_service_names = <<>>

\* The faults of an Instance message.
InstanceFault(m) ==
    \/ m.name # <<>> /\ ~BeginsWith(m.name, InstancesPrefix)
    \/ m.definition_name = <<>>
    \/ ~BeginsWith(m.definition_name, DefinitionsPrefix)

\* C4: Definition._from_pim_v1 raises a ValueError, and builds no Definition,
\* for a name that does not start with definitions/ (an empty name included),
\* an empty product_name, an empty product_version and an empty
\* available_service_names; it returns a Definition for every other message.
C4_DefinitionValidation ==
    outcome.op = "Definition._from_pim_v1" =>
        /\ DefinitionFault(outcome.message) =>
               /\ ~outcome.result.ok
               /\ outcome.result.error.type = "ValueError"
               /\ DOMAIN outcome.result = {"ok", "error"}
        /\ ~DefinitionFault(outcome.message) => outcome.result.ok

\* C4's case: a message whose only fault is an empty list of service names
\* has been refused.
C4_Witness ==
    /\ outcome.op = "Definition._from_pim_v1"
    /\ outcome.message.name = DefinitionsPrefix \o <<"a">>
    /\ outcome.message.product_name # ""
    /\ outcome.message.product_version # ""
    /\ outcome.message.available_service_names = <<>>
    /\ ~outcome.result.ok

\* C6: for a valid Definition message, Definition._from_pim_v1 returns a
\* Definition with the message's name, product_name and product_version,
\* with the contents of its available_service_names, and with the stub passed.
C6_DefinitionRoundTrip ==
    (outcome.op = "Definition._from_pim_v1" /\ ~DefinitionFault(outcome.message)) =>
        /\ outcome.result.ok
        /\ outcome.result.value.name = outcome.message.name
        /\ outcome.result.value.product_name = outcome.message.product_name
        /\ outcome.result.value.product_version = outcome.message.product_version
        /\ SameContents(outcome.result.value.available_service_names,
                        outcome.message.available_service_names)
        /\ outcome.result.value._stub = outcome.stub

\* C6's case: the message of the repository's test (two service names) has
\* been translated with a stub.
C6_Witness ==
    /\ outcome.op = "Definition._from_pim_v1"
    /\ outcome.message.available_service_names = <<"grpc", "http">>
    /\ outcome.message.product_name = "mapdl"
    /\ outcome.stub \in Stubs
    /\ outcome.result.ok

\* C5: Instance._from_pim_v1 raises a ValueError, and builds no Instance, for
\* a non-empty name that does not start with instances/, for an empty
\* definition_name and for a definition_name that does not start with
\* definitions/; it accepts an empty name with a definitions/ definition_name.
C5_InstanceValidation ==
    outcome.op = "Instance._from_pim_v1" =>
        /\ InstanceFault(outcome.message) =>
               /\ ~outcome.result.ok
               /\ outcome.result.error.type = "ValueError"
               /\ DOMAIN outcome.result = {"ok", "error"}
        /\ ( /\ outcome.message.name = <<>>
             /\ BeginsWith(outcome.message.definition_name, DefinitionsPrefix) )
           => outcome.result.ok /\ outcome.result.value.name = <<>>

\* C5's case: a pending instance (no name yet) has been accepted.
C5_Witness ==
    /\ outcome.op = "Instance._from_pim_v1"
    /\ outcome.message.name = <<>>
    /\ outcome.message.definition_name = DefinitionsPrefix \o <<"a">>
    /\ outcome.result.ok

\* C5's other case: a named instance with a bad definition_name was refused.
C5_WitnessRefused ==
    /\ outcome.op = "Instance._from_pim_v1"
    /\ outcome.message.name = InstancesPrefix \o <<"a">>
    /\ outcome.message.definition_name = <<>>
    /\ ~outcome.result.ok

---------------------------------------------------------------------------
(* Properties of the two RPCs.                                             *)

\* The last RPC issued.
LastCall == calls[Len(calls)]

\* The caller is back from operation op, called on an object with a stub.
Completed(op) ==
    /\ pc = "idle"
    /\ outcome.op = op
    /\ outcome.self._stub # None

\* C1: create_instance(timeout) on a Definition with a stub issues exactly
\* one CreateInstance RPC, on the Definition's stub, with a request that
\* carries the Definition's name as definition_name and nothing else, and
\* with the timeout given; when the RPC succeeds, what is returned is what
\* Instance._from_pim_v1 yields for the response and the same stub.
C1_CreateInstance ==
    /\ pc = "CreateInstance" => Len(calls) = pending.before + 1
    /\ Completed("Definition.create_instance") =>
           /\ Len(calls) = outcome.before + 1
           /\ LastCall =
                  [ stub |-> outcome.self._stub,
                    method |-> "CreateInstance",
                    request |-> [ instance |-> [ name |-> <<>>,
                                                 definition_name |-> outcome.self.name,
                                                 ready |-> FALSE,
                                                 status_message |-> "",
                                                 services |-> <<>> ] ],
                    timeout |-> outcome.timeout ]
           /\ outcome.rpc.ok =>
                  outcome.result = Instance_from_pim_v1(outcome.rpc.value, outcome.self._stub)

\* C1's case: create_instance(0.1), as in the repository's test, has
\* returned an Instance.
C1_Witness ==
    /\ Completed("Definition.create_instance")
    /\ outcome.timeout = "0.1"
    /\ outcome.rpc.ok
    /\ outcome.result.ok
    /\ outcome.result.value.name = InstancesPrefix \o <<"a">>

\* C7: every delete(timeout), a repeated one included, issues exactly one
\* DeleteInstance RPC on the handle's stub, keyed by the handle's name, with
\* the timeout given; it returns nothing on success and leaves every field
\* of the Instance as it was.
C7_Delete ==
    /\ pc = "DeleteInstance" =>
           /\ Len(calls) = pending.before + 1
           /\ instance = pending.self
    /\ Completed("Instance.delete") =>
           /\ Len(calls) = outcome.before + 1
           /\ LastCall = [ stub |-> outcome.self._stub,
                           method |-> "DeleteInstance",
                           request |-> [name |-> outcome.self.name],
                           timeout |-> outcome.timeout ]
           /\ outcome.rpc.ok => outcome.result = [ok |-> TRUE, value |-> None]
           /\ instance = outcome.self

\* C7's case: delete has been called twice on the same handle, the first
\* call having deleted the remote instance.
C7_Witness ==
    /\ Completed("Instance.delete")
    /\ Len(calls) = 2
    /\ calls[1].method = "DeleteInstance"
    /\ calls[2].method = "DeleteInstance"
    /\ calls[1].request = calls[2].request
    /\ outcome.self.name = InstancesPrefix \o <<"a">>
    /\ remote = {}

\* C9: a failure of the CreateInstance or DeleteInstance RPC reaches the
\* caller of create_instance or delete unchanged, after exactly one RPC; a
\* failed create returns no Instance.
C9_FailurePropagated ==
    \A op \in {"Definition.create_instance", "Instance.delete"} :
        (Completed(op) /\ ~outcome.rpc.ok) =>
            /\ outcome.result = outcome.rpc
            /\ ~outcome.result.ok
            /\ outcome.result.error.type = "RpcError"
            /\ Len(calls) = outcome.before + 1

\* C9's case: a delete has failed with NOT_FOUND.
C9_Witness ==
    /\ Completed("Instance.delete")
    /\ ~outcome.rpc.ok
    /\ outcome.rpc.error.message = "NOT_FOUND"

\* C9's other case: a create has run out of time.
C9_WitnessCreate ==
    /\ Completed("Definition.create_instance")
    /\ ~outcome.rpc.ok
    /\ outcome.rpc.error.message = "DEADLINE_EXCEEDED"

\* C10: the CreateInstance RPC is issued before its response is validated:
\* when it succeeds with a response that breaks a name invariant, the call
\* raises the ValueError with the remote instance created, returns no
\* Instance and issues no DeleteInstance RPC.
C10_CreatedBeforeValidated ==
    /\ pc = "CreateInstance" =>
           /\ LastCall.method = "CreateInstance"
           /\ Len(calls) = pending.before + 1
    /\ ( /\ Completed("Definition.create_instance")
         /\ outcome.rpc.ok
         /\ InstanceFault(outcome.rpc.value) ) =>
           /\ ~outcome.result.ok
           /\ outcome.result.error.type = "ValueError"
           /\ <<outcome.self._stub, outcome.rpc.value.name>> \in remote
           /\ Len(calls) = outcome.before + 1
           /\ LastCall.method = "CreateInstance"

\* C10's case: the remote service has answered a create with an instance
\* whose name does not start with instances/.
C10_Witness ==
    /\ Completed("Definition.create_instance")
    /\ outcome.rpc.ok
    /\ outcome.rpc.value.name = <<"a">>
    /\ outcome.rpc.value.definition_name = outcome.self.name
    /\ ~outcome.result.ok
    /\ <<outcome.self._stub, <<"a">>>> \in remote


---------------------------------------------------------------------------
(* Properties of Service._build_grpc_channel.                              *)

\* The part of uri after its last ":" (all of uri when it has none) is
\* written in decimal digits only and is the number 443: the digits 4, 4, 3
\* after any number of zeros.
PortIs443(uri) ==
    \E k \in 0..Len(uri) :
        /\ k = 0 \/ uri[k] = ":"
        /\ \A j \in (k + 1)..Len(uri) : uri[j] # ":"
        /\ Len(uri) - k >= 3
        /\ uri[Len(uri)] = "3"
        /\ uri[Len(uri) - 1] = "4"
        /\ uri[Len(uri) - 2] = "4"
        /\ \A j \in (k + 1)..(Len(uri) - 3) : uri[j] = "0"

\* The channel under the interceptors of ch.
RECURSIVE Underlying(_)
Underlying(ch) == IF ch.kind = "intercepted" THEN Underlying(ch.channel) ELSE ch

\* C2: _build_grpc_channel builds a secure channel, with TLS credentials
\* composed with access-token call credentials, exactly when the last
\* ":"-separated segment of uri is purely numeric and equal to 443, and an
\* insecure channel for every other uri.  (With no configuration to take
\* the access token from, the secure construction raises and builds nothing.)
C2_SecureExactlyOn443 ==
    outcome.op = "Service._build_grpc_channel" =>
        /\ ~PortIs443(outcome.self._uri) =>
               /\ outcome.result.ok
               /\ Underlying(outcome.result.value).kind = "insecure"
               /\ Underlying(outcome.result.value).target = outcome.self._uri
        /\ (PortIs443(outcome.self._uri) /\ outcome.result.ok) =>
               /\ Underlying(outcome.result.value).kind = "secure"
               /\ Underlying(outcome.result.value).target = outcome.self._uri
               /\ Underlying(outcome.result.value).credentials
                      = [channel |-> "ssl", call |-> [access_token |-> "token"]]
        /\ (PortIs443(outcome.self._uri) /\ outcome.configured) => outcome.result.ok
        /\ \A k \in 1..Len(received) :
               received[k].secure = PortIs443(outcome.self._uri)

\* C2's case: a channel has been built for h:443, and it is secure.
C2_Witness ==
    /\ outcome.op = "Service._build_grpc_channel"
    /\ outcome.self._uri = <<"h", ":", "4", "4", "3">>
    /\ outcome.result.ok
    /\ Underlying(channel).kind = "secure"

\* C2's other cases: a channel has been built for another decimal port.
C2_WitnessOtherPort ==
    /\ outcome.op = "Service._build_grpc_channel"
    /\ outcome.self._uri = <<"h", ":", "4", "4", "4">>
    /\ Underlying(channel).kind = "insecure"

\* C8: on the secure and on the insecure path, the channel returned is the
\* underlying channel wrapped by the header-adding interceptor built from
\* all of the Service's headers, never the bare channel; so every call made
\* through it reaches the transport with all of headers in its metadata.
C8_HeadersOnEveryCall ==
    (outcome.op = "Service._build_grpc_channel" /\ outcome.result.ok) =>
        /\ channel = outcome.result.value
        /\ channel.kind = "intercepted"
        /\ channel.channel.kind \in {"secure", "insecure"}
        /\ channel.interceptor.kind = "header_adder"
        /\ \A n \in DOMAIN outcome.self._headers :
               <<n, outcome.self._headers[n]>> \in channel.interceptor.headers
        /\ \A k \in 1..Len(received) :
               \A n \in DOMAIN outcome.self._headers :
                   <<n, outcome.self._headers[n]>> \in received[k].metadata

\* C8's case: a call made through a secure channel of a Service with two
\* headers has reached the transport.
C8_Witness ==
    /\ outcome.op = "Service._build_grpc_channel"
    /\ DOMAIN outcome.self._headers = {"authorization", "x-id"}
    /\ Len(received) = 1
    /\ received[1].secure
    /\ received[1].metadata
           = {<<"authorization", "v">>, <<"x-id", "v">>, <<"x-caller", "1">>}

=============================================================================
